---- MODULE Spec2Model ----
(***************************************************************************)
(* gloo console-timer: ConsoleTimer::new, ConsoleTimer::scope and the Drop *)
(* implementation, run by a single-threaded Rust caller.                   *)
(*                                                                         *)
(* The caller is a stack of frames.  A user frame (the top-level caller,   *)
(* or the closure handed to scope) may create timers, drop them, move them *)
(* to an enclosing frame, call scope, return, panic or loop forever.  A    *)
(* scope frame is one activation of ConsoleTimer::scope; it owns `_timer`. *)
(* Leaving a frame, by return or by unwinding, drops its locals in reverse *)
(* order of declaration, as Rust does.  A panic unwinds or, in a build     *)
(* with panic=abort, ends the program without running any destructor.     *)
(*                                                                         *)
(* `trace` is the history of what happened: the calls received by the      *)
(* console (begin = console.time, end = console.timeEnd) and the points at *)
(* which closures and scope calls start and finish.                        *)
(***************************************************************************)
EXTENDS Integers, Sequences, FiniteSets

\* Bounds of the model.
MaxInst == 2          \* timers constructed in one run
MaxScopeDepth == 2    \* nested activations of scope

Labels == {"a", "b"}
Values == {"v1", "v2"}
Payloads == {"boom"}
FacilityPayload == "console"
NoVal == "none"

VARIABLES
  stack,      \* call stack, bottom frame first
  instances,  \* instances[i]: the i-th ConsoleTimer constructed
  trace,      \* history of events
  status,     \* "running", "unwinding", "done", "panicked", "aborted"
  payload,    \* payload of the panic being unwound, or NoVal
  calls       \* number of scope calls made so far

vars == <<stack, instances, trace, status, payload, calls>>

Ev(e, l, i, v) == [ev |-> e, lab |-> l, id |-> i, val |-> v]

----------------------------------------------------------------------------
\* The console, as web_sys binds it.

\* console::time_with_label(label): the console receives begin(label).
time_with_label(tr, label, id) == Append(tr, Ev("begin", label, id, NoVal))

\* console::time_end_with_label(label): the console receives end(label).
time_end_with_label(tr, label, id) == Append(tr, Ev("end", label, id, NoVal))

----------------------------------------------------------------------------
\* struct ConsoleTimer<'a> { label: &'a str }, with its lifecycle state.
ConsoleTimer(label) == [label |-> label, state |-> "Active"]

\* Faulty new: the begin is issued with a fixed label, not the caller's.
new_trace_fixed_label(tr, label, id) == time_with_label(tr, "a", id)

\* ConsoleTimer::new, on the trace: issue begin for the label.
new_trace(tr, label, id) == time_with_label(tr, label, id)

\* ConsoleTimer::new, on the instances: construct ConsoleTimer { label }.
new_inst(insts, label) == Append(insts, ConsoleTimer(label))

\* Faulty drop: it calls console.time where console.timeEnd is meant.
drop_trace_begin(tr, insts, id) == time_with_label(tr, insts[id].label, id)

\* Faulty drop: it calls nothing.
drop_trace_silent(tr, insts, id) == tr

\* Faulty drop: the label is kept in one place shared by all instances, so
\* the end carries the label of the instance constructed last.
drop_trace_shared_label(tr, insts, id) ==
  time_end_with_label(tr, insts[Len(insts)].label, id)

\* Drop::drop, on the trace: issue end for self.label.
drop_trace(tr, insts, id) == time_end_with_label(tr, insts[id].label, id)

\* Drop::drop, on the instances: the value is destroyed.
drop_inst(insts, id) == [insts EXCEPT ![id].state = "Ended"]

----------------------------------------------------------------------------
Frame(k, f, o, p, r) == [kind |-> k, fid |-> f, owned |-> o, pc |-> p, ret |-> r]

Top == stack[Len(stack)]
Depth == Cardinality({i \in 1..Len(stack) : stack[i].kind = "scope"})
SetTop(fr) == [stack EXCEPT ![Len(stack)] = fr]
Pop(s) == SubSeq(s, 1, Len(s) - 1)
Last(s) == s[Len(s)]
Front(s) == SubSeq(s, 1, Len(s) - 1)
RemoveId(s, id) == SelectSeq(s, LAMBDA x : x # id)
InsertAt(s, pos, x) == SubSeq(s, 1, pos - 1) \o <<x>> \o SubSeq(s, pos, Len(s))
InRange(s) == {s[i] : i \in 1..Len(s)}

UserRunning ==
  /\ status = "running"
  /\ Len(stack) > 0
  /\ Top.kind \in {"main", "body"}
  /\ Top.pc = "run"

Init ==
  /\ stack = <<Frame("main", 0, <<>>, "run", NoVal)>>
  /\ instances = <<>>
  /\ trace = <<>>
  /\ status = "running"
  /\ payload = NoVal
  /\ calls = 0

\* let t = ConsoleTimer::new(label);
New(label) ==
  /\ UserRunning
  /\ Len(instances) < MaxInst
  /\ trace' = new_trace(trace, label, Len(instances) + 1)
  /\ instances' = new_inst(instances, label)
  /\ stack' = SetTop([Top EXCEPT !.owned = Append(@, Len(instances) + 1)])
  /\ UNCHANGED <<status, payload, calls>>

\* drop(t): the caller destroys a timer it owns before its scope ends.
DropLocal(id) ==
  /\ UserRunning
  /\ id \in InRange(Top.owned)
  /\ trace' = drop_trace(trace, instances, id)
  /\ instances' = drop_inst(instances, id)
  /\ stack' = SetTop([Top EXCEPT !.owned = RemoveId(@, id)])
  /\ UNCHANGED <<status, payload, calls>>

\* Faulty move: a copy.  The frame moved from still owns the timer, so both
\* owners drop it.
Move_Copy(id, j, pos) ==
  /\ UserRunning
  /\ id \in InRange(Top.owned)
  /\ j \in 1..(Len(stack) - 1)
  /\ stack[j].kind \in {"main", "body"}
  /\ pos \in 1..(Len(stack[j].owned) + 1)
  /\ id \notin InRange(stack[j].owned)
  /\ stack' = [stack EXCEPT ![j].owned = InsertAt(@, pos, id)]
  /\ UNCHANGED <<instances, trace, status, payload, calls>>

\* A move: the timer leaves the frame that owns it and becomes a local of an
\* enclosing user frame (the closure assigns it through a captured slot).
\* The moved-from binding is not dropped.
Move(id, j, pos) ==
  /\ UserRunning
  /\ id \in InRange(Top.owned)
  /\ j \in 1..(Len(stack) - 1)
  /\ stack[j].kind \in {"main", "body"}
  /\ pos \in 1..(Len(stack[j].owned) + 1)
  /\ stack' = [stack EXCEPT ![Len(stack)].owned = RemoveId(@, id),
                            ![j].owned = InsertAt(@, pos, id)]
  /\ UNCHANGED <<instances, trace, status, payload, calls>>

\* Faulty scope: `let _ = ConsoleTimer::new(label);` binds nothing, so the
\* timer is dropped on the spot, before f starts.
CallScope_LetUnderscore(label) ==
  /\ UserRunning
  /\ Len(instances) < MaxInst
  /\ Depth < MaxScopeDepth
  /\ LET id == Len(instances) + 1
         fid == calls + 1
         begun == new_trace(Append(trace, Ev("scopeCall", label, fid, NoVal)), label, id)
     IN /\ trace' = Append(drop_trace(begun, new_inst(instances, label), id),
                           Ev("bodyStart", label, fid, NoVal))
        /\ instances' = drop_inst(new_inst(instances, label), id)
        /\ stack' = stack \o <<Frame("scope", fid, <<>>, "wait", NoVal),
                               Frame("body", fid, <<>>, "run", NoVal)>>
        /\ calls' = fid
  /\ UNCHANGED <<status, payload>>

\* ConsoleTimer::scope(label, f), up to the point where f starts:
\*   let _timer = ConsoleTimer::new(label);  f()
CallScope(label) ==
  /\ UserRunning
  /\ Len(instances) < MaxInst
  /\ Depth < MaxScopeDepth
  /\ LET id == Len(instances) + 1
         fid == calls + 1
     IN /\ trace' = Append(new_trace(Append(trace, Ev("scopeCall", label, fid, NoVal)),
                                     label, id),
                           Ev("bodyStart", label, fid, NoVal))
        /\ instances' = new_inst(instances, label)
        /\ stack' = stack \o <<Frame("scope", fid, <<id>>, "wait", NoVal),
                               Frame("body", fid, <<>>, "run", NoVal)>>
        /\ calls' = fid
  /\ UNCHANGED <<status, payload>>

\* A user frame finishes with value v; its locals are dropped next.
Return(v) ==
  /\ UserRunning
  /\ stack' = SetTop([Top EXCEPT !.pc = "exit", !.ret = v])
  /\ UNCHANGED <<instances, trace, status, payload, calls>>

\* Scope exit: the last-declared live local of the frame is dropped.
ExitDrop ==
  /\ status = "running"
  /\ Len(stack) > 0
  /\ Top.pc = "exit"
  /\ Top.owned # <<>>
  /\ trace' = drop_trace(trace, instances, Last(Top.owned))
  /\ instances' = drop_inst(instances, Last(Top.owned))
  /\ stack' = SetTop([Top EXCEPT !.owned = Front(@)])
  /\ UNCHANGED <<status, payload, calls>>

\* Faulty scope: `f();` discards the closure's value.
BodyReturned_Discard(s, v) ==
  [Pop(s) EXCEPT ![Len(s) - 1].pc = "exit", ![Len(s) - 1].ret = NoVal]

\* The stack after the closure of a scope call has returned v: the scope
\* frame holds f's value as its own result and is about to leave.
BodyReturned(s, v) ==
  [Pop(s) EXCEPT ![Len(s) - 1].pc = "exit", ![Len(s) - 1].ret = v]

\* Scope exit, locals all dropped: control returns to the caller.
ExitPop ==
  /\ status = "running"
  /\ Len(stack) > 0
  /\ Top.pc = "exit"
  /\ Top.owned = <<>>
  /\ \/ /\ Top.kind = "body"
        /\ trace' = Append(trace, Ev("bodyDone", NoVal, Top.fid, Top.ret))
        /\ stack' = BodyReturned(stack, Top.ret)
        /\ UNCHANGED status
     \/ /\ Top.kind = "scope"
        /\ trace' = Append(trace, Ev("scopeRet", NoVal, Top.fid, Top.ret))
        /\ stack' = Pop(stack)
        /\ UNCHANGED status
     \/ /\ Top.kind = "main"
        /\ trace' = trace
        /\ stack' = Pop(stack)
        /\ status' = "done"
  /\ UNCHANGED <<instances, payload, calls>>

\* What a panic does depends on the build: it unwinds the stack, running the
\* destructors of the frames it leaves (panic=unwind), or it ends the program
\* where it is raised and runs none (panic=abort, the only strategy of the
\* wasm32-unknown-unknown target this crate, a web_sys client, is built for).
PanicOutcomes == {"unwinding", "aborted"}

\* panic!(p) in user code.
Panic(p) ==
  /\ UserRunning
  /\ status' \in PanicOutcomes
  /\ payload' = p
  /\ trace' = Append(trace, Ev("panic", NoVal, Top.fid, p))
  /\ UNCHANGED <<stack, instances, calls>>

\* Unwinding: the last-declared live local of the frame is dropped.
UnwindDrop ==
  /\ status = "unwinding"
  /\ Top.owned # <<>>
  /\ trace' = drop_trace(trace, instances, Last(Top.owned))
  /\ instances' = drop_inst(instances, Last(Top.owned))
  /\ stack' = SetTop([Top EXCEPT !.owned = Front(@)])
  /\ UNCHANGED <<status, payload, calls>>

\* Unwinding: the frame has no locals left, the panic reaches its caller.
\* scope has no catch_unwind: the payload is passed on as it is.
UnwindPop ==
  /\ status = "unwinding"
  /\ Top.owned = <<>>
  /\ stack' = Pop(stack)
  /\ trace' = IF Top.kind = "scope"
              THEN Append(trace, Ev("scopeFail", NoVal, Top.fid, payload))
              ELSE trace
  /\ status' = IF Top.kind = "main" THEN "panicked" ELSE status
  /\ UNCHANGED <<instances, payload, calls>>

\* loop {} in the closure: it never returns.
Diverge ==
  /\ UserRunning
  /\ Top.kind = "body"
  /\ stack' = SetTop([Top EXCEPT !.pc = "diverged"])
  /\ UNCHANGED <<instances, trace, status, payload, calls>>

----------------------------------------------------------------------------
\* A console whose calls can fail.  The bindings return () and the component
\* has no handler, so a failure leaves the call site either as a panic that
\* unwinds, or by ending the program on the spot (a foreign exception crossing
\* the frames, or a panic under panic=abort), which runs no destructor.
FailureOutcomes == {"unwinding", "aborted"}

\* ConsoleTimer::new(label) where console::time_with_label fails: the panic
\* leaves new before ConsoleTimer { label } is constructed.
NewFail(label) ==
  /\ UserRunning
  /\ trace' = Append(trace, Ev("beginFail", label, 0, NoVal))
  /\ status' \in FailureOutcomes
  /\ payload' = FacilityPayload
  /\ UNCHANGED <<stack, instances, calls>>

\* Faulty new: ConsoleTimer { label } is constructed before the console is
\* called, so a failed begin leaves a timer behind that is dropped.
CallScopeFail_Constructed(label) ==
  /\ UserRunning
  /\ Len(instances) < MaxInst
  /\ Depth < MaxScopeDepth
  /\ trace' = Append(Append(trace, Ev("scopeCall", label, calls + 1, NoVal)),
                     Ev("beginFail", label, 0, NoVal))
  /\ instances' = new_inst(instances, label)
  /\ stack' = Append(stack, Frame("scope", calls + 1, <<Len(instances) + 1>>, "wait", NoVal))
  /\ calls' = calls + 1
  /\ status' \in FailureOutcomes
  /\ payload' = FacilityPayload

\* ConsoleTimer::scope(label, f) where console::time_with_label fails:
\* `_timer` is never bound and f is never called.
CallScopeFail(label) ==
  /\ UserRunning
  /\ Depth < MaxScopeDepth
  /\ trace' = Append(Append(trace, Ev("scopeCall", label, calls + 1, NoVal)),
                     Ev("beginFail", label, 0, NoVal))
  /\ stack' = Append(stack, Frame("scope", calls + 1, <<>>, "wait", NoVal))
  /\ calls' = calls + 1
  /\ status' \in FailureOutcomes
  /\ payload' = FacilityPayload
  /\ UNCHANGED instances

\* Drop::drop where console::time_end_with_label fails: the value is gone
\* all the same, drop is not run again for it.
drop_fail_trace(tr, insts, id) == Append(tr, Ev("endFail", insts[id].label, id, NoVal))

DropLocalFail(id) ==
  /\ UserRunning
  /\ id \in InRange(Top.owned)
  /\ trace' = drop_fail_trace(trace, instances, id)
  /\ instances' = drop_inst(instances, id)
  /\ stack' = SetTop([Top EXCEPT !.owned = RemoveId(@, id)])
  /\ status' \in FailureOutcomes
  /\ payload' = FacilityPayload
  /\ UNCHANGED calls

ExitDropFail ==
  /\ status = "running"
  /\ Len(stack) > 0
  /\ Top.pc = "exit"
  /\ Top.owned # <<>>
  /\ trace' = drop_fail_trace(trace, instances, Last(Top.owned))
  /\ instances' = drop_inst(instances, Last(Top.owned))
  /\ stack' = SetTop([Top EXCEPT !.owned = Front(@)])
  /\ status' \in FailureOutcomes
  /\ payload' = FacilityPayload
  /\ UNCHANGED calls

\* A panic in a destructor that runs during unwinding aborts the process.
UnwindDropFail ==
  /\ status = "unwinding"
  /\ Top.owned # <<>>
  /\ trace' = drop_fail_trace(trace, instances, Last(Top.owned))
  /\ instances' = drop_inst(instances, Last(Top.owned))
  /\ stack' = SetTop([Top EXCEPT !.owned = Front(@)])
  /\ status' = "aborted"
  /\ UNCHANGED <<payload, calls>>

----------------------------------------------------------------------------
Next ==
  \/ \E l \in Labels : New(l)
  \/ \E id \in 1..MaxInst : DropLocal(id)
  \/ \E id \in 1..MaxInst, j \in 1..(2 * MaxScopeDepth + 1), pos \in 1..(MaxInst + 1) :
        Move(id, j, pos)
  \/ \E l \in Labels : CallScope(l)
  \/ \E v \in Values : Return(v)
  \/ ExitDrop
  \/ ExitPop
  \/ \E p \in Payloads : Panic(p)
  \/ UnwindDrop
  \/ UnwindPop
  \/ Diverge

NextFail ==
  \/ Next
  \/ \E l \in Labels : NewFail(l)
  \/ \E l \in Labels : CallScopeFail(l)
  \/ \E id \in 1..MaxInst : DropLocalFail(id)
  \/ ExitDropFail
  \/ UnwindDropFail

\* The console never fails.
Spec == Init /\ [][Next]_vars

\* The console may fail at any call.
SpecFail == Init /\ [][NextFail]_vars

----------------------------------------------------------------------------
\* Reading the history.

Ids == 1..Len(instances)
Pos == 1..Len(trace)

\* Positions of the events of kind e about instance (or scope call) i.
EvIdx(e, i) == {k \in Pos : trace[k].ev = e /\ trace[k].id = i}
Begins(i) == EvIdx("begin", i)
Ends(i) == EvIdx("end", i)
The(S) == CHOOSE x \in S : TRUE

\* The instance is a local of no frame: it has gone out of scope.
OutOfScope(i) == \A j \in 1..Len(stack) : i \notin InRange(stack[j].owned)

\* Calls the console has received for label l.
BeginsOf(l) == {k \in Pos : trace[k].ev = "begin" /\ trace[k].lab = l}
EndsOf(l) == {k \in Pos : trace[k].ev = "end" /\ trace[k].lab = l}
ActiveOf(l) == {i \in Ids : instances[i].label = l /\ instances[i].state = "Active"}

\* C1: every instance constructed with label L has exactly one begin(L); once
\* it has gone out of scope the console has also received exactly one end
\* for it, with the same label L, after the begin.
C1_BeginThenEnd ==
  \A i \in Ids :
    /\ Cardinality(Begins(i)) = 1
    /\ \A k \in Begins(i) : trace[k].lab = instances[i].label
    /\ OutOfScope(i) =>
         /\ Cardinality(Ends(i)) = 1
         /\ \A b \in Begins(i), e \in Ends(i) :
              b < e /\ trace[e].lab = trace[b].lab

\* An instance labelled "b" was constructed by new and has gone out of scope
\* while the program is still running.
C1_Witness ==
  /\ status = "running"
  /\ \E i \in Ids :
       /\ instances[i].label = "b"
       /\ OutOfScope(i)
       /\ \E b \in Begins(i) : b = 1 \/ trace[b - 1].ev # "scopeCall"

\* C4: no instance has more than one end; an instance is Ended exactly when
\* its one end has been emitted, and nothing about it is emitted after that.
C4_AtMostOneEnd ==
  \A i \in Ids :
    /\ Cardinality(Ends(i)) <= 1
    /\ instances[i].state = "Ended" <=> Cardinality(Ends(i)) = 1
    /\ instances[i].state \in {"Active", "Ended"}
    /\ \A e \in Ends(i), k \in Pos :
         (trace[k].ev \in {"begin", "end"} /\ trace[k].id = i /\ k # e) => k < e

\* An instance constructed inside a closure was moved out of it, outlived the
\* scope call, and has ended.
C4_Witness ==
  \E i \in Ids, r \in Pos :
    /\ trace[r].ev = "scopeRet"
    /\ instances[i].state = "Ended"
    /\ \E b \in Begins(i), s \in EvIdx("bodyStart", trace[r].id), e \in Ends(i) :
         s < b /\ b < r /\ r < e

\* C9: for every label, ends never outnumber begins, and the difference is
\* the number of Active instances with that label.
C9_Balance ==
  \A l \in Labels :
    /\ Cardinality(EndsOf(l)) <= Cardinality(BeginsOf(l))
    /\ Cardinality(BeginsOf(l)) - Cardinality(EndsOf(l)) = Cardinality(ActiveOf(l))

\* Two live instances share label "a".
C9_Witness ==
  /\ Cardinality(ActiveOf("a")) = 2
  /\ Cardinality(BeginsOf("a")) = 2

----------------------------------------------------------------------------
\* Reading the history of scope calls.

Calls == 1..calls
CallAt(f) == The(EvIdx("scopeCall", f))
ScopeLabel(f) == trace[CallAt(f)].lab
Signal(k) == trace[k].ev \in {"begin", "end"}

\* new succeeded in scope call f: the begin of `_timer` follows the call.
HasTimer(f) == CallAt(f) < Len(trace) /\ trace[CallAt(f) + 1].ev = "begin"
ScopeTimer(f) == trace[CallAt(f) + 1].id

\* Positions at which scope call f handed control back to its caller.
Closed(f) == EvIdx("scopeRet", f) \cup EvIdx("scopeFail", f)

\* Scope call g was made while scope call f was running its closure.
Nested(f, g) == CallAt(f) < CallAt(g) /\ \A x \in Closed(f) : CallAt(g) < x

\* C2: a scope call that returned has run its closure exactly once, returned
\* the closure's value, and emitted of its own exactly begin(L) before the
\* closure and end(L), for the same instance, after it.
C2_ScopeReturnsBodyValue ==
  \A r \in Pos :
    trace[r].ev = "scopeRet" =>
      LET f == trace[r].id
          c == CallAt(f)
      IN /\ Cardinality(EvIdx("bodyStart", f)) = 1
         /\ Cardinality(EvIdx("bodyDone", f)) = 1
         /\ \A s \in EvIdx("bodyStart", f), d \in EvIdx("bodyDone", f) :
              /\ c < s /\ s < d /\ d < r
              /\ trace[d].val \in Values
              /\ trace[r].val = trace[d].val
              /\ LET pre == {k \in (c + 1)..(s - 1) : Signal(k)}
                     post == {k \in (d + 1)..(r - 1) : Signal(k)}
                 IN /\ Cardinality(pre) = 1
                    /\ Cardinality(post) = 1
                    /\ \A b \in pre, e \in post :
                         /\ trace[b].ev = "begin" /\ trace[b].lab = ScopeLabel(f)
                         /\ trace[e].ev = "end" /\ trace[e].lab = ScopeLabel(f)
                         /\ trace[e].id = trace[b].id

\* scope("b", body) has returned "v2" to its caller.
C2_Witness ==
  \E r \in Pos :
    /\ trace[r].ev = "scopeRet"
    /\ trace[r].val = "v2"
    /\ ScopeLabel(trace[r].id) = "b"

\* C3: when a panic is raised inside scope call f, f does not return; once
\* the program has stopped, the panic has reached the caller of f with the
\* payload that was raised, and the one end(L) of f's timer was emitted
\* after the panic was raised and before it reached the caller.
C3_EndBeforeFailureObserved ==
  \A p \in Pos :
    trace[p].ev = "panic" =>
      \A f \in Calls :
        (CallAt(f) < p /\ \A x \in Closed(f) : p < x) =>
          /\ EvIdx("scopeRet", f) = {}
          /\ HasTimer(f)
          /\ \A k \in EvIdx("scopeFail", f) :
               /\ trace[k].val = trace[p].val
               /\ Cardinality(Ends(ScopeTimer(f))) = 1
               /\ \A e \in Ends(ScopeTimer(f)) :
                    p < e /\ e < k /\ trace[e].lab = ScopeLabel(f)
          /\ status \in {"panicked", "aborted"} =>
               /\ Cardinality(EvIdx("scopeFail", f)) = 1
               /\ Cardinality(Ends(ScopeTimer(f))) = 1

\* The scope frame of call f is on the stack.
OnStack(f) == \E j \in 1..Len(stack) : stack[j].kind = "scope" /\ stack[j].fid = f

\* C5: in every scope call the begin comes before the closure starts; the
\* end is not emitted while the closure runs, it comes after the closure has
\* completed and before the call returns, and the call then does return.
C5_ScopeOrder ==
  \A f \in Calls :
    /\ HasTimer(f)
    /\ trace[CallAt(f) + 1].lab = ScopeLabel(f)
    /\ \E s \in EvIdx("bodyStart", f) : CallAt(f) + 1 < s
    /\ (\E j \in 1..Len(stack) :
          stack[j].kind = "scope" /\ stack[j].fid = f /\ stack[j].pc = "wait")
       /\ status = "running"
         => Ends(ScopeTimer(f)) = {}
    /\ \A d \in EvIdx("bodyDone", f) :
         /\ \A e \in Ends(ScopeTimer(f)) : d < e
         /\ ~OnStack(f) => EvIdx("scopeRet", f) # {}
    /\ \A r \in EvIdx("scopeRet", f) :
         /\ Cardinality(Ends(ScopeTimer(f))) = 1
         /\ \A e \in Ends(ScopeTimer(f)) : e < r /\ trace[e].lab = ScopeLabel(f)
         /\ \E d \in EvIdx("bodyDone", f) : d < r

\* A scope call whose closure made a scope call of its own, both returned.
C5_Witness ==
  /\ status = "running"
  /\ \E f, g \in Calls :
       /\ Nested(f, g)
       /\ EvIdx("scopeRet", f) # {}
       /\ EvIdx("scopeRet", g) # {}

\* C6: while a closure loops forever, the begin of every scope call around it
\* has been emitted, its timer is Active with no end, the call has not
\* returned, and the program can take no further step.
C6_DivergeNeverEnds ==
  \A j \in 1..Len(stack) :
    stack[j].pc = "diverged" =>
      /\ status = "running"
      /\ j = Len(stack)
      /\ ~ENABLED Next
      /\ \A m \in 1..(j - 1) :
           stack[m].kind = "scope" =>
             LET f == stack[m].fid
             IN /\ HasTimer(f)
                /\ trace[CallAt(f) + 1].lab = ScopeLabel(f)
                /\ Ends(ScopeTimer(f)) = {}
                /\ instances[ScopeTimer(f)].state = "Active"
                /\ Closed(f) = {}

\* A closure two scope calls deep loops forever.
C6_Witness ==
  /\ Len(stack) > 0
  /\ Top.pc = "diverged"
  /\ Depth = 2

\* C8: when scope call g is made from inside the closure of scope call f,
\* the timer of f begins before the timer of g, and the timer of g has ended
\* before the timer of f ends, whatever the labels.
C8_NestedLifo ==
  \A f, g \in Calls :
    Nested(f, g) =>
      /\ HasTimer(f) /\ HasTimer(g)
      /\ CallAt(f) + 1 < CallAt(g) + 1
      /\ \A ef \in Ends(ScopeTimer(f)) :
           \E eg \in Ends(ScopeTimer(g)) : CallAt(g) + 1 < eg /\ eg < ef
      /\ instances[ScopeTimer(f)].state = "Ended"
           => instances[ScopeTimer(g)].state = "Ended"

\* scope("a") inside scope("a"), both finished: the console saw the begin
\* of the outer, the begin of the inner, the end of the inner, the end of
\* the outer.
C8_Witness ==
  \E f, g \in Calls :
    /\ Nested(f, g)
    /\ ScopeLabel(f) = "a" /\ ScopeLabel(g) = "a"
    /\ \E ef \in Ends(ScopeTimer(f)), eg \in Ends(ScopeTimer(g)) :
         CallAt(f) + 1 < CallAt(g) + 1 /\ CallAt(g) + 1 < eg /\ eg < ef

----------------------------------------------------------------------------
\* Each instance has its own pair: one begin, at most one end after it, both
\* with the instance's label.
OwnPair(i) ==
  /\ Cardinality(Begins(i)) = 1
  /\ Cardinality(Ends(i)) <= 1
  /\ \A k \in Begins(i) \cup Ends(i) : trace[k].lab = instances[i].label
  /\ \A b \in Begins(i), e \in Ends(i) : b < e

\* A step's signals are about one instance, carry that instance's label, and
\* leave every other instance as it was; a step without a signal changes no
\* instance.
IndependentStep ==
  /\ Len(trace') >= Len(trace)
  /\ \A j \in Ids :
       instances'[j] # instances[j] =>
         \E k \in (Len(trace) + 1)..Len(trace') :
           trace'[k].ev = "end" /\ trace'[k].id = j
  /\ \A k \in (Len(trace) + 1)..Len(trace') :
       trace'[k].ev \in {"begin", "end"} =>
         /\ trace'[k].id \in 1..Len(instances')
         /\ trace'[k].lab = instances'[trace'[k].id].label
         /\ \A j \in Ids \ {trace'[k].id} : instances'[j] = instances[j]

\* C7: instances are independent, whatever their labels and however their
\* lifetimes are nested, sequenced or interleaved: each has one begin and at
\* most one end for its own label, begin first, and a step that creates or
\* destroys one instance emits nothing for another and leaves it unchanged.
C7_Independent ==
  [][IndependentStep /\ \A i \in 1..Len(instances') : OwnPair(i)']_vars

\* Labels "a" and "b" with overlapping lifetimes that are not nested: the
\* console saw begin(a), begin(b), end(a), end(b).
C7_Witness ==
  /\ Len(trace) = 4
  /\ trace[1] = Ev("begin", "a", 1, NoVal)
  /\ trace[2] = Ev("begin", "b", 2, NoVal)
  /\ trace[3] = Ev("end", "a", 1, NoVal)
  /\ trace[4] = Ev("end", "b", 2, NoVal)

----------------------------------------------------------------------------
FailedBegins == {k \in Pos : trace[k].ev = "beginFail"}
FailedEnds == {k \in Pos : trace[k].ev = "endFail"}

\* C10: a failed begin leaves the program with the failure on its way out:
\* no instance is constructed for it, the closure of that scope call is not
\* started, the call does not return, and nothing is emitted for the
\* attempt; a failed end is likewise on its way out, and for every instance
\* end is attempted at most once, failed or not.  A scope call that a
\* failure leaves hands its caller the console's failure exactly when one
\* has happened.
C10_FacilityFailureSurfaces ==
  /\ Cardinality({k \in Pos : trace[k].ev = "begin"}) = Len(instances)
  /\ \A i \in Ids : Cardinality(Ends(i)) + Cardinality(EvIdx("endFail", i)) <= 1
  /\ \A k \in FailedBegins \cup FailedEnds :
       /\ status \in {"unwinding", "panicked", "aborted"}
       /\ payload = FacilityPayload \/ status = "aborted"
       /\ \A n \in (k + 1)..Len(trace) :
            trace[n].ev \in {"end", "endFail", "scopeFail"}
  /\ \A k \in FailedBegins :
       /\ \A n \in Pos : trace[n].ev \in {"end", "endFail"} => trace[n].id # trace[k].id
       /\ \A f \in Calls :
            CallAt(f) = k - 1 =>
              /\ EvIdx("bodyStart", f) = {}
              /\ EvIdx("scopeRet", f) = {}
              /\ \A x \in EvIdx("scopeFail", f) : trace[x].val = FacilityPayload
  /\ \A f \in Calls :
       \A x \in EvIdx("scopeFail", f) :
         trace[x].val = FacilityPayload <=>
           \E k \in FailedBegins \cup FailedEnds : k < x

\* The begin of a nested scope call failed, and during the unwinding the end
\* of the enclosing call's timer failed too.
C10_Witness ==
  /\ status = "aborted"
  /\ \E k \in FailedBegins, e \in FailedEnds :
       /\ k > 1 /\ trace[k - 1].ev = "scopeCall"
       /\ k < e
====
